---- MODULE Spec2Model ----
(***************************************************************************)
(* Model of app.py, the Streamlit risk-management calculator.              *)
(*                                                                         *)
(* The state is the value of every input widget plus the outcome of the    *)
(* last run of the script.  Streamlit re-runs the whole script after every *)
(* widget change (a keyed widget's on_change callback runs first), so each *)
(* action is: change one widget, run its callback, run the script.         *)
(*                                                                         *)
(* Python floats are modelled as exact rationals <<num, den>> (den > 0,    *)
(* lowest terms); rounding, overflow, inf and nan are outside the model.   *)
(* Text inputs are sequences of one-character strings.                     *)
(***************************************************************************)
EXTENDS Integers, Sequences, FiniteSets, TLC

(***************************************************************************)
(* Bounds of the model.                                                    *)
(***************************************************************************)
\* how far outside [0,100] a typed DCA value may lie
TypedOver == 2
\* leverage values 1..MaxSmallLeverage are explored besides the default, 20
MaxSmallLeverage == 1

(***************************************************************************)
(* Exact rational arithmetic standing in for float arithmetic.             *)
(***************************************************************************)
RECURSIVE Gcd(_, _)
Gcd(a, b) == IF b = 0 THEN a ELSE Gcd(b, a % b)

IAbs(n) == IF n < 0 THEN 0 - n ELSE n

\* the rational n/d (d # 0) in lowest terms with a positive denominator
Rat(n, d) ==
    LET g == Gcd(IAbs(n), IAbs(d))
        s == IF d < 0 THEN 0 - 1 ELSE 1
    IN  << (s * n) \div g, (s * d) \div g >>

FromInt(n) == << n, 1 >>
Zero == FromInt(0)
One == FromInt(1)
Hundred == FromInt(100)

RNeg(x) == << 0 - x[1], x[2] >>
RAbs(x) == << IAbs(x[1]), x[2] >>

RAdd(x, y) ==
    LET g == Gcd(x[2], y[2])
        l == (x[2] \div g) * y[2]
    IN  Rat(x[1] * (l \div x[2]) + y[1] * (l \div y[2]), l)

RSub(x, y) == RAdd(x, RNeg(y))

\* cross-reduced before multiplying so that intermediate values stay small
RMul(x, y) ==
    LET g1 == Gcd(IAbs(x[1]), y[2])
        g2 == Gcd(IAbs(y[1]), x[2])
    IN  Rat((x[1] \div g1) * (y[1] \div g2), (x[2] \div g2) * (y[2] \div g1))

\* x / y for y # 0; the callers raise ZeroDivisionError themselves
RDiv(x, y) == RMul(x, Rat(y[2], y[1]))

RIsZero(x) == x[1] = 0
RIsPos(x) == x[1] > 0
RLt(x, y) == RSub(x, y)[1] < 0
RLe(x, y) == RSub(x, y)[1] <= 0
RGt(x, y) == RLt(y, x)
RGe(x, y) == RLe(y, x)

\* Python's None
None == << >>

(***************************************************************************)
(* float(text): optional sign, digits with at most one decimal point, at   *)
(* least one digit; anything else raises ValueError.                       *)
(***************************************************************************)
Digits == {"0", "1", "2", "3", "4", "5", "6", "7", "8", "9"}

DigitVal(c) ==
    CASE c = "0" -> 0 [] c = "1" -> 1 [] c = "2" -> 2 [] c = "3" -> 3
      [] c = "4" -> 4 [] c = "5" -> 5 [] c = "6" -> 6 [] c = "7" -> 7
      [] c = "8" -> 8 [] c = "9" -> 9

RECURSIVE Pow10(_)
Pow10(k) == IF k = 0 THEN 1 ELSE 10 * Pow10(k - 1)

\* value of the digit string s read as an integer, ignoring a decimal point
RECURSIVE DigitsVal(_, _)
DigitsVal(s, acc) ==
    IF s = << >> THEN acc
    ELSE IF Head(s) = "." THEN DigitsVal(Tail(s), acc)
    ELSE DigitsVal(Tail(s), 10 * acc + DigitVal(Head(s)))

\* [ok |-> whether float(text) succeeds, val |-> its value]
ParseFloat(text) ==
    LET neg  == Len(text) > 0 /\ text[1] = "-"
        body == IF Len(text) > 0 /\ text[1] \in {"-", "+"} THEN Tail(text) ELSE text
        dots == {i \in 1..Len(body) : body[i] = "."}
        digs == {i \in 1..Len(body) : body[i] \in Digits}
        wellFormed == /\ Cardinality(dots) <= 1
                      /\ Cardinality(digs) >= 1
                      /\ Cardinality(dots) + Cardinality(digs) = Len(body)
        frac == IF dots = {} THEN 0 ELSE Len(body) - (CHOOSE i \in dots : TRUE)
        mag  == Rat(DigitsVal(body, 0), Pow10(frac))
    IN  IF wellFormed
        THEN [ok |-> TRUE, val |-> IF neg THEN RNeg(mag) ELSE mag]
        ELSE [ok |-> FALSE, val |-> None]

(***************************************************************************)
(* The pieces of the script, in source order.                              *)
(***************************************************************************)

\* sync_dca_from_input's clamp of the typed value
ClampDca_NoUpperClamp(val) == IF val < 0 THEN 0 ELSE val
ClampDca(val) ==
    LET v1 == IF val < 0 THEN 0 ELSE val
    IN  IF v1 > 100 THEN 100 ELSE v1

\* risk: derived from the account in percent mode, else the dollar widget
ResolveRisk(use_risk_pct, account_balance, risk_pct_in, risk_in) ==
    IF use_risk_pct
    THEN RDiv(RMul(account_balance, risk_pct_in), Hundred)
    ELSE risk_in

\* risk_pct: the percent widget, else derived from the dollar risk
ResolveRiskPct(use_risk_pct, account_balance, risk_pct_in, risk_in) ==
    IF use_risk_pct THEN risk_pct_in
    ELSE IF RIsPos(account_balance)
         THEN RMul(RDiv(risk_in, account_balance), Hundred)
         ELSE Zero

\* dca_pct: the slider's session value when DCA is on, else 0.0
DcaPct_IgnoresCheckbox(use_dca, dca_pct_slider) == FromInt(dca_pct_slider)
DcaPct(use_dca, dca_pct_slider) ==
    IF use_dca THEN FromInt(dca_pct_slider) ELSE Zero

\* the two sanity checks; "" when both pass
SanityCheck_RiskFirst(risk_per_unit, risk) ==
    IF RLe(risk, Zero) THEN "NonPositiveRisk"
    ELSE IF RIsZero(risk_per_unit) THEN "ZeroRiskDistance"
    ELSE ""
SanityCheck_RiskNegativeOnly(risk_per_unit, risk) ==
    IF RIsZero(risk_per_unit) THEN "ZeroRiskDistance"
    ELSE IF RLt(risk, Zero) THEN "NonPositiveRisk"
    ELSE ""
SanityCheck(risk_per_unit, risk) ==
    IF RIsZero(risk_per_unit) THEN "ZeroRiskDistance"
    ELSE IF RLe(risk, Zero) THEN "NonPositiveRisk"
    ELSE ""

TotalPosUnits(risk, risk_per_unit) == RDiv(risk, risk_per_unit)

EntryFraction_NoComplement(dca_pct) == RDiv(dca_pct, Hundred)
EntryFraction(dca_pct) == RSub(One, RDiv(dca_pct, Hundred))
DcaFraction(dca_pct) == RDiv(dca_pct, Hundred)

Margin(notional, leverage) ==
    IF leverage > 0 THEN RDiv(notional, FromInt(leverage)) ELSE Zero

RiskRewardRatio_NoneOnZeroReward(reward_per_unit, risk_per_unit) ==
    IF ~RIsZero(reward_per_unit) THEN RDiv(reward_per_unit, risk_per_unit) ELSE None
RiskRewardRatio(reward_per_unit, risk_per_unit) ==
    IF ~RIsZero(risk_per_unit) THEN RDiv(reward_per_unit, risk_per_unit) ELSE None

AccountRiskPct(risk, account_balance) ==
    IF RIsPos(account_balance)
    THEN RMul(RDiv(risk, account_balance), Hundred)
    ELSE None

\* 1 / leverage is defined: the leverage widget has min_value=1
Liq_SidesSwapped(side, entry, leverage) ==
    IF side = "Long"
    THEN RMul(entry, RAdd(One, Rat(1, leverage)))
    ELSE RMul(entry, RSub(One, Rat(1, leverage)))
Liq(side, entry, leverage) ==
    IF side = "Long"
    THEN RMul(entry, RSub(One, Rat(1, leverage)))
    ELSE RMul(entry, RAdd(One, Rat(1, leverage)))

MoveToTarget(side, entry, target) ==
    IF side = "Long" THEN RSub(target, entry) ELSE RSub(entry, target)

StopLiqPct(stop, liq) ==
    IF ~RIsZero(stop)
    THEN RMul(RDiv(RAbs(RSub(stop, liq)), stop), Hundred)
    ELSE None

\* the colour-coded R:R message, << >> when the ratio is None
RRMessage_StrictBounds(risk_reward_ratio) ==
    IF risk_reward_ratio # None
    THEN IF RGt(risk_reward_ratio, FromInt(3)) THEN << "StrongSetup" >>
         ELSE IF RGt(risk_reward_ratio, FromInt(2)) THEN << "DecentSetup" >>
         ELSE << "WeakSetup" >>
    ELSE << >>
RRMessage(risk_reward_ratio) ==
    IF risk_reward_ratio # None
    THEN IF RGe(risk_reward_ratio, FromInt(3)) THEN << "StrongSetup" >>
         ELSE IF RGe(risk_reward_ratio, FromInt(2)) THEN << "DecentSetup" >>
         ELSE << "WeakSetup" >>
    ELSE << >>

\* the two safety warnings, in source order
SafetyWarnings(stop_liq_pct, account_risk_pct) ==
    (IF stop_liq_pct # None /\ RLt(stop_liq_pct, One)
     THEN << "LiquidationNearStop" >> ELSE << >>)
    \o
    (IF account_risk_pct # None /\ RGt(account_risk_pct, FromInt(2))
     THEN << "ExcessiveAccountRisk" >> ELSE << >>)

(***************************************************************************)
(* One run of the script.  The result records the script's local variables *)
(* (None while unassigned), the error it reported ("" for none) and the    *)
(* elements it rendered in the results column, in order.                   *)
(*   error = "ParseError"         float() raised, st.error + st.stop       *)
(*         = "ZeroRiskDistance"   first sanity check, st.error + st.stop   *)
(*         = "NonPositiveRisk"    second sanity check, st.error + st.stop  *)
(*         = "ZeroDivisionError"  raised by entry_stop_pct, caught by the  *)
(*                                script's except Exception                *)
(*         = "TypeError"          raised by formatting None in the summary *)
(*                                banner, caught by except Exception       *)
(***************************************************************************)
Blank ==
    [error |-> "", msgs |-> << >>,
     entry |-> None, stop |-> None, target |-> None,
     risk |-> None, risk_pct |-> None, dca_pct |-> None,
     risk_per_unit |-> None,
     total_pos_units |-> None, total_notional |-> None,
     entry_units |-> None, dca_units |-> None,
     entry_notional |-> None, dca_notional |-> None,
     margin_full |-> None, margin_entry |-> None, margin_dca |-> None,
     risk_reward_ratio |-> None, account_risk_pct |-> None,
     liq |-> None,
     entry_stop_pct |-> None, entry_liq_pct |-> None, stop_liq_pct |-> None,
     pnl_target_full |-> None, risk_entry_only |-> None]

\* what the results column shows after a complete run, in source order
Rendered(use_dca, dca_pct, stop_liq_pct, risk_reward_ratio, account_risk_pct) ==
    << "ResultsHeader", "Summary", "EntryLeg" >>
    \o (IF use_dca /\ RIsPos(dca_pct) THEN << "DcaLeg" >> ELSE << "DcaNotUsed" >>)
    \o << "PlannedRisk", "RiskPct", "MarginFull", "LiquidationPrice",
          "EntryStopPct", "EntryLiqPct" >>
    \o (IF stop_liq_pct # None THEN << "StopLiqPct" >> ELSE << >>)
    \o << "DcaReserved" >>
    \o (IF use_dca /\ RIsPos(dca_pct) THEN << "DcaActive" >> ELSE << "DcaDisabled" >>)
    \o RRMessage(risk_reward_ratio)
    \o SafetyWarnings(stop_liq_pct, account_risk_pct)

\* the core calculations, from the parsed prices on
Calculate(entry, stop, target, leverage, account_balance, risk, risk_pct, side, use_dca, dca_pct) ==
    LET risk_per_unit == RAbs(RSub(entry, stop))
        check == SanityCheck(risk_per_unit, risk)
        s0 == [Blank EXCEPT !.entry = entry, !.stop = stop, !.target = target,
                            !.risk = risk, !.risk_pct = risk_pct,
                            !.dca_pct = dca_pct, !.risk_per_unit = risk_per_unit]
    IN  IF check # "" THEN [s0 EXCEPT !.error = check]
        ELSE
        LET total_pos_units == TotalPosUnits(risk, risk_per_unit)
            total_notional == RMul(total_pos_units, entry)
            entry_units == RMul(total_pos_units, EntryFraction(dca_pct))
            dca_units == RMul(total_pos_units, DcaFraction(dca_pct))
            entry_notional == RMul(entry_units, entry)
            dca_notional == RMul(dca_units, entry)
            reward_per_unit == RAbs(RSub(target, entry))
            risk_reward_ratio == RiskRewardRatio(reward_per_unit, risk_per_unit)
            account_risk_pct == AccountRiskPct(risk, account_balance)
            liq == Liq(side, entry, leverage)
            s1 == [s0 EXCEPT !.total_pos_units = total_pos_units,
                             !.total_notional = total_notional,
                             !.entry_units = entry_units,
                             !.dca_units = dca_units,
                             !.entry_notional = entry_notional,
                             !.dca_notional = dca_notional,
                             !.margin_full = Margin(total_notional, leverage),
                             !.margin_entry = Margin(entry_notional, leverage),
                             !.margin_dca = Margin(dca_notional, leverage),
                             !.risk_reward_ratio = risk_reward_ratio,
                             !.account_risk_pct = account_risk_pct,
                             !.liq = liq]
        IN  \* entry_stop_pct divides by entry
            IF RIsZero(entry) THEN [s1 EXCEPT !.error = "ZeroDivisionError"]
            ELSE
            LET stop_liq_pct == StopLiqPct(stop, liq)
                s2 == [s1 EXCEPT
                         !.entry_stop_pct = RMul(RDiv(risk_per_unit, entry), Hundred),
                         !.entry_liq_pct = RMul(RDiv(RAbs(RSub(entry, liq)), entry), Hundred),
                         !.stop_liq_pct = stop_liq_pct,
                         !.pnl_target_full =
                              RMul(MoveToTarget(side, entry, target), total_pos_units),
                         !.risk_entry_only = RMul(entry_units, risk_per_unit)]
            IN  \* the summary banner formats account_risk_pct with :.2f
                IF account_risk_pct = None
                THEN [s2 EXCEPT !.error = "TypeError", !.msgs = << "ResultsHeader" >>]
                ELSE [s2 EXCEPT !.msgs = Rendered(use_dca, dca_pct, stop_liq_pct,
                                                  risk_reward_ratio, account_risk_pct)]

\* the whole script: parse the three prices, read the widgets, calculate
Script(es, ss, ts, leverage, account_balance, use_risk_pct, risk_pct_in, risk_in, side, use_dca, dca_pct_slider) ==
    LET pe == ParseFloat(es)
        ps == ParseFloat(ss)
        pt == ParseFloat(ts)
    IN  IF ~(pe.ok /\ ps.ok /\ pt.ok) THEN [Blank EXCEPT !.error = "ParseError"]
        ELSE Calculate(pe.val, ps.val, pt.val, leverage, account_balance,
                       ResolveRisk(use_risk_pct, account_balance, risk_pct_in, risk_in),
                       ResolveRiskPct(use_risk_pct, account_balance, risk_pct_in, risk_in),
                       side, use_dca, DcaPct(use_dca, dca_pct_slider))

(***************************************************************************)
(* Input values explored.  Prices are texts, as typed into the text        *)
(* inputs; the first of each set is the widget's default.                  *)
(***************************************************************************)
T105 == << "0", ".", "0", "0", "0", "0", "1", "0", "5" >>
T095 == << "0", ".", "0", "0", "0", "0", "0", "9", "5" >>
T115 == << "0", ".", "0", "0", "0", "0", "1", "1", "5" >>
T100 == << "0", ".", "0", "0", "0", "0", "1" >>
T125 == << "0", ".", "0", "0", "0", "0", "1", "2", "5" >>
T135 == << "0", ".", "0", "0", "0", "0", "1", "3", "5" >>
TZero == << "0" >>
TBad == << "a", "b", "c" >>

EntryTexts == {T105, TZero, TBad}
StopTexts == {T095, T105, T100, TZero}
TargetTexts == {T115, T105, T125, T135, TZero}
LeverageVals == (1..MaxSmallLeverage) \cup {20}
BalanceVals == {FromInt(5000), Zero}
RiskVals == {FromInt(100), Zero}
RiskPctVals == {One, Zero, FromInt(3)}
Sides == {"Long", "Short"}
SliderVals == {0, 50, 100}
TypedVals == ((0 - TypedOver)..(0 - 1)) \cup SliderVals \cup (101..(100 + TypedOver))

(***************************************************************************)
(* State.                                                                  *)
(***************************************************************************)
VARIABLES entry_str, stop_str, target_str, leverage, account_balance,
          use_risk_pct, risk_pct_in, risk_in, side, use_dca,
          dca_pct_slider, dca_pct_input, out

prices == << entry_str, stop_str, target_str >>
account == << leverage, account_balance, side >>
riskw == << use_risk_pct, risk_pct_in, risk_in >>
session == << dca_pct_slider, dca_pct_input >>
vars == << entry_str, stop_str, target_str, leverage, account_balance,
           use_risk_pct, risk_pct_in, risk_in, side, use_dca,
           dca_pct_slider, dca_pct_input, out >>

\* the script re-runs on the new widget values
Rerun ==
    out' = Script(entry_str', stop_str', target_str', leverage', account_balance',
                  use_risk_pct', risk_pct_in', risk_in', side', use_dca',
                  dca_pct_slider')

\* widgets below the price inputs exist only if the last run got past st.stop()
\* in the price parsing
PastPrices == out.error # "ParseError"

Init ==
    /\ entry_str = T105
    /\ stop_str = T095
    /\ target_str = T115
    /\ leverage = 20
    /\ account_balance = FromInt(5000)
    /\ use_risk_pct = FALSE
    /\ risk_pct_in = One
    /\ risk_in = FromInt(100)
    /\ side = "Long"
    /\ use_dca = TRUE
    /\ dca_pct_slider = 50
    /\ dca_pct_input = 50
    /\ out = Script(T105, T095, T115, 20, FromInt(5000), FALSE, One, FromInt(100),
                    "Long", TRUE, 50)

SetEntry ==
    \E t \in EntryTexts :
        /\ entry_str' = t
        /\ UNCHANGED << stop_str, target_str, account, riskw, use_dca, session >>
        /\ Rerun

SetStop ==
    \E t \in StopTexts :
        /\ stop_str' = t
        /\ UNCHANGED << entry_str, target_str, account, riskw, use_dca, session >>
        /\ Rerun

SetTarget ==
    \E t \in TargetTexts :
        /\ target_str' = t
        /\ UNCHANGED << entry_str, stop_str, account, riskw, use_dca, session >>
        /\ Rerun

SetLeverage ==
    /\ PastPrices
    /\ \E n \in LeverageVals :
        /\ leverage' = n
        /\ UNCHANGED << prices, account_balance, side, riskw, use_dca, session >>
        /\ Rerun

SetAccountBalance ==
    /\ PastPrices
    /\ \E b \in BalanceVals :
        /\ account_balance' = b
        /\ UNCHANGED << prices, leverage, side, riskw, use_dca, session >>
        /\ Rerun

\* the widget of the mode switched to is created anew, with its default value
ToggleRiskPct ==
    /\ PastPrices
    /\ use_risk_pct' = ~use_risk_pct
    /\ risk_pct_in' = One
    /\ risk_in' = FromInt(100)
    /\ UNCHANGED << prices, account, use_dca, session >>
    /\ Rerun

SetRiskPct ==
    /\ PastPrices
    /\ use_risk_pct
    /\ \E p \in RiskPctVals :
        /\ risk_pct_in' = p
        /\ UNCHANGED << prices, account, use_risk_pct, risk_in, use_dca, session >>
        /\ Rerun

SetRisk ==
    /\ PastPrices
    /\ ~use_risk_pct
    /\ \E r \in RiskVals :
        /\ risk_in' = r
        /\ UNCHANGED << prices, account, use_risk_pct, risk_pct_in, use_dca, session >>
        /\ Rerun

SetSide ==
    /\ PastPrices
    /\ \E s \in Sides :
        /\ side' = s
        /\ UNCHANGED << prices, leverage, account_balance, riskw, use_dca, session >>
        /\ Rerun

\* the DCA checkbox; the two session keys keep their values
ToggleDca ==
    /\ PastPrices
    /\ use_dca' = ~use_dca
    /\ UNCHANGED << prices, account, riskw, session >>
    /\ Rerun

\* the DCA checkbox switched off, the two session keys dropped with their
\* widgets and seeded again with 50 by the next run
ToggleDcaReseed ==
    /\ PastPrices
    /\ use_dca
    /\ use_dca' = FALSE
    /\ dca_pct_slider' = 50
    /\ dca_pct_input' = 50
    /\ UNCHANGED << prices, account, riskw >>
    /\ Rerun

\* the slider moved, then sync_dca_from_slider
SlideDca ==
    /\ PastPrices
    /\ use_dca
    /\ \E v \in SliderVals :
        /\ dca_pct_slider' = v
        /\ dca_pct_input' = dca_pct_slider'
        /\ UNCHANGED << prices, account, riskw, use_dca >>
        /\ Rerun

\* a value typed, then sync_dca_from_input
TypeDca ==
    /\ PastPrices
    /\ use_dca
    /\ \E v \in TypedVals :
        /\ dca_pct_input' = ClampDca(v)
        /\ dca_pct_slider' = ClampDca(v)
        /\ UNCHANGED << prices, account, riskw, use_dca >>
        /\ Rerun

Next ==
    \/ SetEntry
    \/ SetStop
    \/ SetTarget
    \/ SetLeverage
    \/ SetAccountBalance
    \/ ToggleRiskPct
    \/ SetRiskPct
    \/ SetRisk
    \/ SetSide
    \/ ToggleDca
    \/ ToggleDcaReseed
    \/ SlideDca
    \/ TypeDca

Spec == Init /\ [][Next]_vars

(***************************************************************************)
(* Vocabulary of the properties, stated on the inputs (the widget values)  *)
(* and on the outcome of the run.                                          *)
(***************************************************************************)
AllParse ==
    ParseFloat(entry_str).ok /\ ParseFloat(stop_str).ok /\ ParseFloat(target_str).ok
EntryPrice == ParseFloat(entry_str).val
StopPrice == ParseFloat(stop_str).val
TargetPrice == ParseFloat(target_str).val

\* the risk amount the inputs resolve to
RiskAmount ==
    IF use_risk_pct
    THEN RDiv(RMul(account_balance, risk_pct_in), Hundred)
    ELSE risk_in

\* the DCA percentage the inputs stand for
DcaPercent == IF use_dca THEN FromInt(dca_pct_slider) ELSE Zero

\* the input passes the script's validation
PassesValidation ==
    AllParse /\ EntryPrice # StopPrice /\ RIsPos(RiskAmount)

PositivePrices ==
    RIsPos(EntryPrice) /\ RIsPos(StopPrice) /\ RIsPos(TargetPrice)

\* the run completed and rendered its results
Completed == out.error = "" /\ out.msgs # << >>

Shown(m) == \E i \in 1..Len(out.msgs) : out.msgs[i] = m

\* nothing was sized and nothing of the results was rendered
NoMetrics ==
    /\ out.msgs = << >>
    /\ out.total_pos_units = None
    /\ out.entry_units = None
    /\ out.dca_units = None
    /\ out.margin_full = None
    /\ out.margin_entry = None
    /\ out.margin_dca = None
    /\ out.liq = None
    /\ out.risk_reward_ratio = None
    /\ out.account_risk_pct = None

SetupAdvisories == {"StrongSetup", "DecentSetup", "WeakSetup"}

(***************************************************************************)
(* Properties.                                                             *)
(***************************************************************************)

\* C1: whenever the entry price equals the stop price the run is rejected
\* with the zero-risk-distance error and produces no metrics, whatever the
\* other inputs are, also when the risk amount is <= 0.
C1_ZeroDistanceRejected ==
    (AllParse /\ EntryPrice = StopPrice)
        => (out.error = "ZeroRiskDistance" /\ NoMetrics)

C1_Witness ==
    /\ AllParse
    /\ EntryPrice = StopPrice
    /\ RLe(RiskAmount, Zero)
    /\ out.error = "ZeroRiskDistance"

\* C2 (as claimed): an otherwise valid input with a zero account balance
\* completes without an exception, with the account-risk percent absent and
\* the metrics produced.
C2_ZeroBalanceCompletes ==
    (/\ PassesValidation
     /\ PositivePrices
     /\ leverage >= 1
     /\ account_balance = Zero)
        => (/\ out.account_risk_pct = None
            /\ out.error = ""
            /\ Shown("Summary"))

C4_NonPositivePriceRejected ==
    (/\ AllParse
     /\ \/ RLe(EntryPrice, Zero)
        \/ RLe(StopPrice, Zero)
        \/ RLe(TargetPrice, Zero))
        => (/\ out.error \in {"InvalidPrice", "ZeroRiskDistance", "NonPositiveRisk"}
            /\ NoMetrics)

\* C5 (as claimed): whenever the risk amount resolves to <= 0 the run is
\* rejected with the non-positive-risk error and produces no position size,
\* margin or liquidation metric.  Stated for positive prices, so that what
\* refutes it is an input whose prices are valid one by one.
C5_NonPositiveRiskRejected ==
    (AllParse /\ PositivePrices /\ RLe(RiskAmount, Zero))
        => (out.error = "NonPositiveRisk" /\ NoMetrics)

\* C5 (amended): whenever the risk amount resolves to <= 0 and the entry
\* price differs from the stop price, the run is rejected with the
\* non-positive-risk error; when the two prices are equal it is rejected with
\* the zero-risk-distance error instead; either way no position size, margin
\* or liquidation metric is produced.
C5_NonPositiveRiskRejectedUnlessZeroDistance ==
    (AllParse /\ RLe(RiskAmount, Zero))
        => /\ NoMetrics
           /\ EntryPrice # StopPrice => out.error = "NonPositiveRisk"
           /\ EntryPrice = StopPrice => out.error = "ZeroRiskDistance"

C5_Witness ==
    /\ AllParse
    /\ use_risk_pct
    /\ RIsPos(account_balance)
    /\ risk_pct_in = Zero
    /\ EntryPrice # StopPrice
    /\ out.error = "NonPositiveRisk"

\* C6: for an input that passes validation with a positive entry price, a
\* Long position with leverage > 1 has its liquidation price
\* entry * (1 - 1/leverage) strictly below the entry, and a Short position
\* has its liquidation price entry * (1 + 1/leverage) strictly above it.
C6_LiquidationSide ==
    (PassesValidation /\ RIsPos(EntryPrice))
        => /\ (side = "Long" /\ leverage > 1)
                => /\ out.liq = RSub(EntryPrice, RDiv(EntryPrice, FromInt(leverage)))
                   /\ RLt(out.liq, EntryPrice)
           /\ side = "Short"
                => /\ out.liq = RAdd(EntryPrice, RDiv(EntryPrice, FromInt(leverage)))
                   /\ RGt(out.liq, EntryPrice)

C6_Witness ==
    /\ PassesValidation
    /\ RIsPos(EntryPrice)
    /\ side = "Short"
    /\ leverage = 1
    /\ Completed
    /\ out.liq = RAdd(EntryPrice, EntryPrice)

\* C7: for an input that passes validation the total position is
\* risk / |entry - stop| whatever the DCA checkbox and percentage are, the
\* entry leg is total * (1 - dcaPercent/100), the DCA leg is
\* total * (dcaPercent/100), and the two legs sum to the total.
C7_TotalFromFullRiskThenSplit ==
    PassesValidation
        => /\ out.total_pos_units = RDiv(RiskAmount, RAbs(RSub(EntryPrice, StopPrice)))
           /\ out.entry_units =
                  RMul(out.total_pos_units, RSub(One, RDiv(DcaPercent, Hundred)))
           /\ out.dca_units = RMul(out.total_pos_units, RDiv(DcaPercent, Hundred))
           /\ RAdd(out.entry_units, out.dca_units) = out.total_pos_units

C7_Witness ==
    /\ PassesValidation
    /\ Completed
    /\ use_dca
    /\ dca_pct_slider = 50
    /\ RIsPos(out.dca_units)
    /\ out.entry_units = out.dca_units
    /\ RAdd(out.entry_units, out.dca_units) = out.total_pos_units

\* C8: for an input that passes validation, a DCA percentage of 0, which
\* includes DCA switched off whatever the stored slider value is, puts the
\* whole position in the entry leg and nothing in the DCA leg; a DCA
\* percentage of 100 puts nothing in the entry leg and the whole position in
\* the DCA leg.
C8_DcaExtremes ==
    PassesValidation
        => /\ RIsPos(out.total_pos_units)
           /\ (~use_dca \/ dca_pct_slider = 0)
                => /\ out.dca_pct = Zero
                   /\ out.entry_units = out.total_pos_units
                   /\ out.dca_units = Zero
           /\ (use_dca /\ dca_pct_slider = 100)
                => /\ out.dca_pct = Hundred
                   /\ out.entry_units = Zero
                   /\ out.dca_units = out.total_pos_units

C8_Witness ==
    /\ PassesValidation
    /\ Completed
    /\ ~use_dca
    /\ dca_pct_slider = 100
    /\ out.entry_units = out.total_pos_units
    /\ out.dca_units = Zero
    /\ Shown("DcaNotUsed")

\* C9: a completed run whose risk:reward ratio is defined shows exactly one
\* setup advisory: weak below 2, decent from 2 up to but not including 3,
\* strong from 3 on; the liquidation-near-stop warning (stop to liquidation
\* below 1 percent) and the excessive-account-risk warning (account risk
\* above 2 percent) are shown besides it, exactly when their conditions hold.
C9_OneSetupAdvisoryPlusWarnings ==
    LET reward == RAbs(RSub(TargetPrice, EntryPrice))
        riskPerUnit == RAbs(RSub(EntryPrice, StopPrice))
    IN  (Completed /\ out.risk_reward_ratio # None)
        => /\ Cardinality({i \in 1..Len(out.msgs) : out.msgs[i] \in SetupAdvisories}) = 1
           /\ Shown("WeakSetup") <=> RLt(reward, RMul(FromInt(2), riskPerUnit))
           /\ Shown("DecentSetup") <=> /\ RGe(reward, RMul(FromInt(2), riskPerUnit))
                                       /\ RLt(reward, RMul(FromInt(3), riskPerUnit))
           /\ Shown("StrongSetup") <=> RGe(reward, RMul(FromInt(3), riskPerUnit))
           /\ Shown("LiquidationNearStop")
                <=> (out.stop_liq_pct # None /\ RLt(out.stop_liq_pct, One))
           /\ Shown("ExcessiveAccountRisk")
                <=> RGt(RMul(RiskAmount, Hundred), RMul(FromInt(2), account_balance))

C9_Witness ==
    /\ Completed
    /\ RGe(out.risk_reward_ratio, FromInt(3))
    /\ Shown("StrongSetup")
    /\ Shown("LiquidationNearStop")
    /\ Shown("ExcessiveAccountRisk")

\* C10: after any sequence of slider and typed-value changes, each followed
\* by its callback, the two session values are equal and lie in 0..100 (an
\* out-of-range typed value is clamped), and with DCA on the calculation uses
\* that shared value as its DCA percentage.
C10_DcaValuesInSync ==
    /\ dca_pct_slider = dca_pct_input
    /\ dca_pct_slider \in 0..100
    /\ (use_dca /\ AllParse) => out.dca_pct = FromInt(dca_pct_input)

C10_Witness ==
    /\ use_dca
    /\ dca_pct_input = 100
    /\ dca_pct_slider = 100
    /\ Completed
    /\ out.dca_pct = Hundred

====
